---------------------------- MODULE Spec2Model ----------------------------
(***************************************************************************)
(* A model of src/components/podcast-app.tsx (the documented copy of the   *)
(* component, lines 300-677).                                              *)
(*                                                                         *)
(*   PodcastApp   topic / isLoading / error / recentPodcasts and the three *)
(*                async handlers fetchPodcasts, handleSubmit, handleDelete *)
(*                talking to the backend through fetch.                    *)
(*   AudioPlayer  isPlaying / currentTime / duration / waveformData, the   *)
(*                audio element it drives, generateWaveform, drawWaveform  *)
(*                and formatTime.                                          *)
(*                                                                         *)
(* An await is a point where the handler is suspended: every handler is    *)
(* cut at each of its awaits (of fetch, of the body of a response, of      *)
(* fetchPodcasts, of decodeAudioData), and the code between two awaits is  *)
(* one action.  The backend and the audio element are the environment: a   *)
(* request is first answered by the backend (which reads or changes its    *)
(* list then) and later delivered to the handler, so that answers can      *)
(* overtake one another.  Podcasts are their ids.  Numbers are exact       *)
(* fractions, with NaN and Infinity for the divisions by zero.             *)
(***************************************************************************)
EXTENDS Integers, Sequences, FiniteSets, TLC

VARIABLES
    \* ---- PodcastApp (lines 528-532)
    topic,            \* useState('')
    isLoading,        \* useState(false)
    error,            \* useState('')
    recentPodcasts,   \* useState<Podcast[]>([]): the value last given to
                      \* setRecentPodcasts, an array of podcast ids (or, from a
                      \* body that is a JSON string, a string)
    mounted,          \* whether the mount effect (line 537) has run
    unmounted,        \* whether a render has thrown, which takes the page away
    calls,            \* the handler invocations: where each one is suspended
    backend,          \* the list the backend currently holds (ids, newest first)
    nextId,           \* the id the backend gives to the next podcast
    lastRefresh,      \* history: the call whose fetchPodcasts was issued last,
                      \* and whether that fetchPodcasts has succeeded
    \* ---- AudioPlayer (lines 356-367)
    isPlaying,        \* useState(false)
    currentTime,      \* useState(0), in ticks
    duration,         \* useState(0), in ticks
    waveformData,     \* useState<number[]>([])
    waveform,         \* where generateWaveform (lines 391-410) is suspended
    audio,            \* the <audio> element behind audioRef
    channelData,      \* the decoded samples of channel 0 of the audio file
    canvas,           \* the bars last painted by drawWaveform: TRUE = played colour
    \* ---- formatTime (lines 493-497)
    fmtTime,          \* the argument of formatTime, in ticks
    fmtOut            \* the string it returned

appVars    == <<topic, isLoading, error, recentPodcasts, mounted, unmounted, calls, backend,
                nextId, lastRefresh>>
playerVars == <<isPlaying, currentTime, duration, waveformData, waveform, audio, canvas>>
waveVars   == <<channelData>>
fmtVars    == <<fmtTime, fmtOut>>
vars       == <<appVars, playerVars, waveVars, fmtVars>>

\* A step of one component leaves the others alone.
OnlyApp    == UNCHANGED <<playerVars, waveVars, fmtVars>>
OnlyPlayer == UNCHANGED <<appVars, waveVars, fmtVars>>
OnlyFormat == UNCHANGED <<appVars, playerVars, waveVars>>

-----------------------------------------------------------------------------
(* Bounds of the model *)

MaxCalls   == 3   \* handler invocations in one run (the mount fetch included)
MaxBackend == 6   \* podcasts the backend holds at most when the page is opened

Min(a, b) == IF a <= b THEN a ELSE b

-----------------------------------------------------------------------------
(* PodcastApp *)

Topics == {"", "ai", "jazz"}

NoResp == [kind |-> "none"]
NoArg  == "-"

\* What fetch can produce for a request: a response with ok = true (for a GET,
\* with a body), a response with ok = false (status, statusText), or a
\* rejected promise.
HttpErrors == { [kind |-> "http", status |-> 500, statusText |-> "Internal Server Error"] }
NetworkError == [kind |-> "reject", isError |-> TRUE, message |-> "Failed to fetch"]
Rejections == { NetworkError, [kind |-> "reject", isError |-> FALSE, message |-> "aborted"] }

\* The list the backend holds with n podcasts, newest first.
BackendOf(n) == [i \in 1..n |-> n + 1 - i]

\* The JavaScript values that have a slice method: an array, and a string (the
\* sequence of its UTF-16 code units).
Array(items) == [type |-> "array", items |-> items]
String(units) == [type |-> "string", items |-> units]
\* The bodies of an ok response to the GET: the list of the backend as JSON, a
\* JSON string, or a body response.json() rejects or gives a value without
\* slice for (not JSON, an object, null, a number).
StringBody == String(<<97, 98, 99, 100, 101, 102, 103, 104>>)   \* "abcdefgh"
OtherBody == [type |-> "other"]

\* Array.prototype.slice(start, end) for 0 <= start <= end (line 553).
slice_off(data, start, end) == SubSeq(data, start + 1, Min(end + 1, Len(data)))
slice(data, start, end) == SubSeq(data, start + 1, Min(end, Len(data)))

Ids(s) == { s[i] : i \in DOMAIN s }

Remove(s, id) == SelectSeq(s, LAMBDA x : x # id)

Call(kind, pc, arg) == [kind |-> kind, pc |-> pc, arg |-> arg, resp |-> NoResp]
Done(c) == [calls EXCEPT ![c] = Call(calls[c].kind, "done", NoArg)]

CanCall == Len(calls) < MaxCalls

\* fetchPodcasts is called by call c (line 546): it is now the refresh issued last.
NoRefresh == [call |-> 0, ok |-> FALSE]
IssueRefresh(c) == lastRefresh' = [call |-> c, ok |-> FALSE]
\* The fetchPodcasts of call c returns, having succeeded or not.
SettleRefresh(c, ok) ==
    lastRefresh' = IF lastRefresh.call = c THEN [call |-> c, ok |-> ok] ELSE lastRefresh

\* The page before its first render, with a backend that holds n podcasts.
AppStart(n) ==
    /\ topic = ""
    /\ isLoading = FALSE
    /\ error = ""
    /\ recentPodcasts = Array(<<>>)
    /\ mounted = FALSE
    /\ unmounted = FALSE
    /\ calls = <<>>
    /\ backend = BackendOf(n)
    /\ nextId = n + 1
    /\ lastRefresh = NoRefresh

\* The page opened on an empty backend or on one with a few podcasts.
AppInit == \E n \in {0, MaxBackend \div 3} : AppStart(n)


\* ---- fetchPodcasts (lines 544-558), from the response of its GET on.

\* The try block reaches setRecentPodcasts and completes: the response is ok
\* and its body parses to a value that has slice, an array or a string (lines
\* 547-553; nothing checks that data is an array).
fetchSucceeded(r) == r.kind = "ok" /\ r.body.type \in {"array", "string"}

\* recentPodcasts after fetchPodcasts got response r (line 553; untouched by
\* the catch block).
fetchedRecent(r, recent) ==
    IF fetchSucceeded(r) THEN [r.body EXCEPT !.items = slice(@, 0, 5)] ELSE recent

\* error after fetchPodcasts got response r (line 556).
fetchedError(r, err) == IF fetchSucceeded(r) THEN err ELSE "Failed to load podcasts"

\* Whether fetchPodcasts rejects towards its caller: its catch block (lines
\* 554-557) handles every failure and rethrows nothing.
fetchThrows_rethrow(r) == ~fetchSucceeded(r)
fetchThrows(r) == FALSE

\* ---- handleSubmit (lines 571-591)

\* disabled={!topic || isLoading} of the Generate button (line 626), the only
\* caller of handleSubmit.
submitDisabled_topicOnly == topic = ""
submitDisabled == topic = "" \/ isLoading

\* The message of the error handleSubmit catches for a failed POST (lines 581, 587).
submitErrorMessage_unknown(r) == "An unknown error occurred"
submitErrorMessage(r) ==
    IF r.kind = "http"
    THEN "Network response was not ok: " \o ToString(r.status) \o " " \o r.statusText
    ELSE IF r.isError THEN r.message ELSE "An unknown error occurred"

\* The finally block (line 589).
submitFinally_skip(loading) == loading
submitFinally(loading) == FALSE

\* topic after the awaited refresh returned to handleSubmit (line 584; the
\* catch block is entered instead when the refresh throws).
topicAfterRefresh_keep(r, t) == IF fetchSucceeded(r) THEN "" ELSE t
topicAfterRefresh(r, t) == IF fetchThrows(r) THEN t ELSE ""

\* ---- handleDelete (lines 596-610)
deleteErrorMessage_load == "Failed to load podcasts"
deleteErrorMessage == "Failed to delete podcast"

\* ---- the user and React

\* The form and the list are on the page: no render has thrown.  A render
\* throws when recentPodcasts is not an array (recentPodcasts.map, line 643);
\* nothing catches that, React takes the whole page away, and nothing brings
\* it back.
Rendered == ~unmounted

\* The render that follows this step throws: the handlers that were resumed
\* in this turn of the event loop have all run, and what they leave in
\* recentPodcasts is not an array.
RenderThrows ==
    /\ recentPodcasts'.type # "array"
    /\ \A c \in DOMAIN calls' : calls'[c].pc # "resume"

\* No continuation is waiting in the microtask queue: a caller of fetchPodcasts
\* resumes (lines 583, 605) in the turn of the event loop in which
\* fetchPodcasts returned, before any event of the user is handled.
NoMicrotask == \A c \in DOMAIN calls : calls[c].pc # "resume"

\* The mount effect (lines 537-539): fetchPodcasts is called once.
Mount ==
    /\ ~mounted
    /\ mounted' = TRUE
    /\ calls' = Append(calls, Call("mount", "get", NoArg))
    /\ IssueRefresh(Len(calls) + 1)
    /\ UNCHANGED <<topic, isLoading, error, recentPodcasts, unmounted, backend, nextId>>
    /\ OnlyApp

\* handleTopicChange (lines 563-565).
handleTopicChange(v) ==
    /\ mounted /\ Rendered /\ NoMicrotask
    /\ v # topic
    /\ topic' = v
    /\ UNCHANGED <<isLoading, error, recentPodcasts, mounted, unmounted, calls, backend, nextId>>
    /\ UNCHANGED lastRefresh
    /\ OnlyApp

\* handleSubmit up to its await of the POST (lines 572-579).
handleSubmit ==
    /\ mounted /\ Rendered /\ NoMicrotask
    /\ ~submitDisabled
    /\ CanCall
    /\ isLoading' = TRUE
    /\ error' = ""
    /\ calls' = Append(calls, Call("submit", "post", topic))
    /\ UNCHANGED <<topic, recentPodcasts, mounted, unmounted, backend, nextId>>
    /\ UNCHANGED lastRefresh
    /\ OnlyApp

\* handleDelete up to its await of the DELETE (lines 597-600); the Delete
\* button exists for the podcasts shown (line 663).
handleDelete(id) ==
    /\ mounted /\ Rendered /\ NoMicrotask
    /\ id \in Ids(recentPodcasts.items)
    /\ CanCall
    /\ calls' = Append(calls, Call("delete", "delete", id))
    /\ UNCHANGED <<topic, isLoading, error, recentPodcasts, mounted, unmounted, backend, nextId>>
    /\ UNCHANGED lastRefresh
    /\ OnlyApp

\* ---- the backend answers a request in flight

Answer(c, r) == calls' = [calls EXCEPT ![c].resp = r]
Waiting(c, pc) == c \in DOMAIN calls /\ calls[c].pc = pc /\ calls[c].resp = NoResp

ServerPost(c) ==
    /\ Waiting(c, "post")
    /\ \/ /\ Answer(c, [kind |-> "ok"])
          /\ backend' = <<nextId>> \o backend
          /\ nextId' = nextId + 1
       \/ /\ \E r \in HttpErrors \cup Rejections : Answer(c, r)
          /\ UNCHANGED <<backend, nextId>>
    /\ UNCHANGED <<topic, isLoading, error, recentPodcasts, mounted, unmounted>>
    /\ UNCHANGED lastRefresh
    /\ OnlyApp

ServerGet(c) ==
    /\ Waiting(c, "get")
    /\ \/ Answer(c, [kind |-> "ok", body |-> Array(backend)])
       \/ \E b \in {StringBody, OtherBody} : Answer(c, [kind |-> "ok", body |-> b])
       \/ \E r \in HttpErrors \cup {NetworkError} : Answer(c, r)
    /\ UNCHANGED <<topic, isLoading, error, recentPodcasts, mounted, unmounted, backend, nextId>>
    /\ UNCHANGED lastRefresh
    /\ OnlyApp

ServerDelete(c) ==
    /\ Waiting(c, "delete")
    /\ \/ /\ calls[c].arg \in Ids(backend)
          /\ Answer(c, [kind |-> "ok"])
          /\ backend' = Remove(backend, calls[c].arg)
       \/ /\ \E r \in HttpErrors \cup {NetworkError} : Answer(c, r)
          /\ UNCHANGED backend
    /\ UNCHANGED <<topic, isLoading, error, recentPodcasts, mounted, unmounted, nextId>>
    /\ UNCHANGED lastRefresh
    /\ OnlyApp

\* ---- the handlers resume

Answered(c, pc) == c \in DOMAIN calls /\ calls[c].pc = pc /\ calls[c].resp # NoResp
At(c, pc) == c \in DOMAIN calls /\ calls[c].pc = pc

\* Call c goes on to its next await, with the response it holds.
Goto(c, pc) == calls' = [calls EXCEPT ![c].pc = pc]

\* fetchPodcasts returns to call c: the mount effect does not wait for it
\* (line 538); handleSubmit and handleDelete resume after their await (lines
\* 583, 605) in a later microtask.
Return(c) == IF calls[c].kind = "mount" THEN calls' = Done(c) ELSE Goto(c, "resume")

\* handleSubmit resumes with the POST's outcome (lines 580-583, 585-590).
SubmitPostResponse(c) ==
    /\ Answered(c, "post")
    /\ IF calls[c].resp.kind = "ok"
       THEN /\ calls' = [calls EXCEPT ![c] = Call("submit", "get", NoArg)]
            /\ IssueRefresh(c)
            /\ UNCHANGED <<isLoading, error>>
       ELSE /\ error' = submitErrorMessage(calls[c].resp)
            /\ isLoading' = submitFinally(isLoading)
            /\ calls' = Done(c)
            /\ UNCHANGED lastRefresh
    /\ UNCHANGED <<topic, recentPodcasts, mounted, unmounted, backend, nextId>>
    /\ OnlyApp

\* handleDelete resumes with the DELETE's outcome (lines 601-605, 606-609): an
\* ok response goes on to the refresh, a response that is not ok to the await
\* of its body (line 602), a rejected request to the catch block.
DeleteResponse(c) ==
    /\ Answered(c, "delete")
    /\ CASE calls[c].resp.kind = "ok" ->
              /\ calls' = [calls EXCEPT ![c] = Call("delete", "get", NoArg)]
              /\ IssueRefresh(c)
              /\ UNCHANGED error
         [] calls[c].resp.kind = "http" ->
              /\ Goto(c, "text")
              /\ UNCHANGED <<error, lastRefresh>>
         [] OTHER ->
              /\ error' = deleteErrorMessage
              /\ calls' = Done(c)
              /\ UNCHANGED lastRefresh
    /\ UNCHANGED <<topic, isLoading, recentPodcasts, mounted, unmounted, backend, nextId>>
    /\ OnlyApp

\* response.text() of a DELETE that was not ok settles (line 602): with the
\* text handleDelete throws (line 603), without it the await throws, and the
\* catch block follows (lines 606-609).
DeleteBody(c) ==
    /\ At(c, "text")
    /\ error' = deleteErrorMessage
    /\ calls' = Done(c)
    /\ UNCHANGED <<topic, isLoading, recentPodcasts, mounted, unmounted, backend, nextId>>
    /\ UNCHANGED lastRefresh
    /\ OnlyApp

\* fetchPodcasts resumes with the GET's outcome (lines 547-551, 554-557): an ok
\* response goes on to the await of its body (line 552); otherwise the catch
\* block runs and fetchPodcasts returns.
FetchResponse(c) ==
    /\ Answered(c, "get")
    /\ IF calls[c].resp.kind = "ok"
       THEN /\ Goto(c, "json")
            /\ UNCHANGED <<error, lastRefresh>>
       ELSE /\ error' = fetchedError(calls[c].resp, error)
            /\ SettleRefresh(c, fetchSucceeded(calls[c].resp))
            /\ Return(c)
    /\ UNCHANGED <<topic, isLoading, recentPodcasts, mounted, unmounted, backend, nextId>>
    /\ OnlyApp

\* response.json() settles (lines 552-557): setRecentPodcasts(data.slice(0, 5))
\* or the catch block, and fetchPodcasts returns.
FetchBody(c) ==
    /\ At(c, "json")
    /\ recentPodcasts' = fetchedRecent(calls[c].resp, recentPodcasts)
    /\ error' = fetchedError(calls[c].resp, error)
    /\ SettleRefresh(c, fetchSucceeded(calls[c].resp))
    /\ Return(c)
    /\ unmounted' = (unmounted \/ RenderThrows)
    /\ UNCHANGED <<topic, isLoading, mounted, backend, nextId>>
    /\ OnlyApp

\* The caller of fetchPodcasts resumes after its await: handleSubmit at lines
\* 584-590, handleDelete at lines 606-609.  Were fetchPodcasts to throw, the
\* caller's catch block would run (lines 585-587, 606-609): fetchThrows says it
\* never does.
FetchReturned(c) ==
    /\ At(c, "resume")
    /\ LET r == calls[c].resp IN
       IF calls[c].kind = "submit"
       THEN /\ topic' = topicAfterRefresh(r, topic)
            /\ error' = IF fetchThrows(r) THEN "Failed to fetch podcasts" ELSE error
            /\ isLoading' = submitFinally(isLoading)
       ELSE /\ error' = IF fetchThrows(r) THEN deleteErrorMessage ELSE error
            /\ UNCHANGED <<topic, isLoading>>
    /\ calls' = Done(c)
    /\ UNCHANGED <<recentPodcasts, mounted, backend, nextId>>
    /\ UNCHANGED lastRefresh
    /\ unmounted' = (unmounted \/ RenderThrows)
    /\ OnlyApp

\* The podcasts whose Delete button the user can press: each card of the list
\* has one (line 663, inside recentPodcasts.map).
DeleteChoices == IF Rendered THEN Ids(recentPodcasts.items) ELSE {}

AppNext ==
    \/ Mount
    \/ \E v \in Topics : handleTopicChange(v)
    \/ handleSubmit
    \/ \E id \in DeleteChoices : handleDelete(id)
    \/ \E c \in DOMAIN calls : ServerPost(c)
    \/ \E c \in DOMAIN calls : ServerGet(c)
    \/ \E c \in DOMAIN calls : ServerDelete(c)
    \/ \E c \in DOMAIN calls : SubmitPostResponse(c)
    \/ \E c \in DOMAIN calls : DeleteResponse(c)
    \/ \E c \in DOMAIN calls : DeleteBody(c)
    \/ \E c \in DOMAIN calls : FetchResponse(c)
    \/ \E c \in DOMAIN calls : FetchBody(c)
    \/ \E c \in DOMAIN calls : FetchReturned(c)

-----------------------------------------------------------------------------
(* Numbers *)

\* The quotient a / b of two integers a >= 0, b >= 0 as JavaScript computes it,
\* kept exact: a fraction when b > 0, Infinity for a / 0 with a > 0, NaN for 0 / 0.
Div(a, b) == [num |-> a, den |-> b]
IsNaN(x) == x.den = 0 /\ x.num = 0
IsInfinity(x) == x.den = 0 /\ x.num > 0
IsFinite(x) == x.den > 0

\* x <= y as JavaScript compares: false when either side is NaN.
Leq(x, y) ==
    IF IsNaN(x) \/ IsNaN(y) THEN FALSE
    ELSE IF IsInfinity(y) THEN TRUE
    ELSE IF IsInfinity(x) THEN FALSE
    ELSE x.num * y.den <= y.num * x.den

Abs(v) == IF v < 0 THEN -v ELSE v

-----------------------------------------------------------------------------
(* AudioPlayer *)

TicksPerSecond == 2   \* times are counted in ticks of 1/TicksPerSecond s
MaxDuration    == 3   \* the longest audio file, in ticks
MaxLength      == 250 \* the longest decoded channel buffer, in samples
MaxAmp         == 2   \* samples are integers in -MaxAmp..MaxAmp
MaxPattern     == 3   \* the sample patterns tried for each length

\* A decoded channel buffer of L samples.
Buffer(L, p) == [k \in 1..L |-> (((k - 1) * p + p) % (2 * MaxAmp + 1)) - MaxAmp]
Buffers == { Buffer(L, p) : L \in 0..MaxLength, p \in 1..MaxPattern }

\* ---- generateWaveform (lines 391-410), from the decoded buffer on.

samples == 100

RECURSIVE blockSum(_, _, _)
\* The inner loop (lines 403-406): sum of |channelData[blockStart + j]|, j < n.
blockSum(data, blockStart, n) ==
    IF n = 0 THEN 0
    ELSE blockSum(data, blockStart, n - 1) + Abs(data[blockStart + (n - 1) + 1])

blockSizeOf(data) == Len(data) \div samples

generateWaveform(data) ==
    LET blockSize == blockSizeOf(data) IN
    [i \in 1..samples |-> Div(blockSum(data, blockSize * (i - 1), blockSize), blockSize)]

\* ---- drawWaveform (lines 420-453): the colour of each bar, TRUE for the
\* played colour '#e2e8f0'; nothing is painted while waveformData is empty.
barPlayed_strict(index, length, progress) == ~Leq(progress, Div(index, length))
barPlayed(index, length, progress) == Leq(Div(index, length), progress)

drawWaveform(wf, ct, dur, old) ==
    IF Len(wf) > 0
    THEN LET progress == Div(ct, dur) IN
         [i \in 1..Len(wf) |-> barPlayed(i - 1, Len(wf), progress)]
    ELSE old

\* ---- formatTime (lines 493-497)

Digits == <<"0", "1", "2", "3", "4", "5", "6", "7", "8", "9">>

RECURSIVE toString(_)
\* Number.prototype.toString of an integer n >= 0.
toString(n) == IF n < 10 THEN <<Digits[n + 1]>> ELSE toString(n \div 10) \o <<Digits[(n % 10) + 1]>>

RECURSIVE padStart(_, _, _)
\* String.prototype.padStart with a one-character pad string.
padStart_none(str, targetLength, padString) == str
padStart(str, targetLength, padString) ==
    IF Len(str) >= targetLength THEN str
    ELSE padStart(<<padString>> \o str, targetLength, padString)

\* time is a number of seconds >= 0, as a fraction.
formatTime(time) ==
    LET minutes == time.num \div (60 * time.den)
        seconds == (time.num % (60 * time.den)) \div time.den
    IN toString(minutes) \o <<":">> \o padStart(toString(seconds), 2, "0")

\* ---- the component and its audio element

\* The audio element: paused, and the playback position, in ticks; its duration
\* is NaN until the metadata is loaded; error is set once it has given up
\* loading its source.
NewAudio == [paused |-> TRUE, currentTime |-> 0, duration |-> 0, loaded |-> FALSE,
             error |-> FALSE]

PlayerInit ==
    /\ isPlaying = FALSE
    /\ currentTime = 0
    /\ duration = 0
    /\ waveformData = <<>>
    /\ waveform = "fetch"
    /\ audio = NewAudio
    /\ canvas = <<>>

\* The draw effect (lines 419-456) runs after a render that changed
\* waveformData, currentTime or duration.
Redraw == canvas' = drawWaveform(waveformData', currentTime', duration', canvas)

\* What audio.play() does to the element: playback starts (from the beginning
\* when it had ended), or the promise is rejected at once and the element stays
\* paused, as it always is once the element has its error.  A playback that
\* has started before the source is loaded ends with LoadFailed.
PlayOutcomes == {"started", "rejected"}
play(a, outcome) ==
    IF outcome = "started" /\ ~a.error
    THEN [a EXCEPT !.paused = FALSE,
                   !.currentTime = IF a.loaded /\ a.currentTime = a.duration THEN 0 ELSE @]
    ELSE a

\* togglePlayPause (lines 461-472).
togglePlayPause(outcome) ==
    /\ IF audio.paused
       THEN /\ audio' = play(audio, outcome)
            /\ isPlaying' = TRUE
       ELSE /\ audio' = [audio EXCEPT !.paused = TRUE]
            /\ isPlaying' = FALSE
    /\ UNCHANGED <<currentTime, duration, waveformData, waveform, canvas>>
    /\ OnlyPlayer

\* The element loads its metadata and fires 'loadedmetadata': updateDuration
\* (line 375).
loadedmetadata(d) ==
    /\ ~audio.loaded /\ ~audio.error
    /\ audio' = [audio EXCEPT !.loaded = TRUE, !.duration = d]
    /\ duration' = d
    /\ UNCHANGED <<isPlaying, currentTime, waveformData, waveform>>
    /\ Redraw
    /\ OnlyPlayer

\* The element gives up loading its source (the file cannot be fetched or
\* played): it sets its error, pauses itself when play() had started it and
\* rejects that promise, and fires 'error' and 'pause', which the component
\* does not listen to (lines 377-378).
LoadFailed ==
    /\ ~audio.loaded /\ ~audio.error
    /\ audio' = [audio EXCEPT !.error = TRUE, !.paused = TRUE]
    /\ UNCHANGED <<isPlaying, currentTime, duration, waveformData, waveform, canvas>>
    /\ OnlyPlayer

\* Playback advances by a tick.
Playback ==
    /\ audio.loaded /\ ~audio.paused /\ audio.currentTime < audio.duration
    /\ audio' = [audio EXCEPT !.currentTime = @ + 1]
    /\ UNCHANGED <<isPlaying, currentTime, duration, waveformData, waveform, canvas>>
    /\ OnlyPlayer

\* Playback reaches the end: the element pauses itself and fires 'ended', which
\* the component does not listen to (lines 377-378 add no such listener).
PlaybackEnded ==
    /\ audio.loaded /\ ~audio.paused /\ audio.currentTime = audio.duration
    /\ audio' = [audio EXCEPT !.paused = TRUE]
    /\ UNCHANGED <<isPlaying, currentTime, duration, waveformData, waveform, canvas>>
    /\ OnlyPlayer

\* The element fires 'timeupdate': updateTime (line 374).
timeupdate ==
    /\ currentTime # audio.currentTime
    /\ currentTime' = audio.currentTime
    /\ UNCHANGED <<isPlaying, duration, waveformData, waveform, audio>>
    /\ Redraw
    /\ OnlyPlayer

\* handleWaveformClick (lines 479-488), clicking at the place of tick pos.
handleWaveformClick(pos) ==
    /\ audio.loaded
    /\ pos \in 0..audio.duration
    /\ pos # audio.currentTime
    /\ audio' = [audio EXCEPT !.currentTime = pos]
    /\ UNCHANGED <<isPlaying, currentTime, duration, waveformData, waveform, canvas>>
    /\ OnlyPlayer

\* The waveform effect (lines 390-413) has called generateWaveform at the first
\* render, which is suspended at its await of fetch (line 392), then of
\* response.arrayBuffer() (line 393), then of decodeAudioData (line 395).
WaveformStill == UNCHANGED <<isPlaying, currentTime, duration, waveformData, audio, canvas>>

\* The response to the fetch of the file arrives (line 392).
WaveformFetched ==
    /\ waveform = "fetch"
    /\ waveform' = "arrayBuffer"
    /\ WaveformStill
    /\ OnlyPlayer

\* The body of the response is complete (line 393).
WaveformBuffered ==
    /\ waveform = "arrayBuffer"
    /\ waveform' = "decode"
    /\ WaveformStill
    /\ OnlyPlayer

\* The file is decoded (lines 395-409): the buffer is reduced and
\* setWaveformData is called.
WaveformLoaded ==
    /\ waveform = "decode"
    /\ waveform' = "done"
    /\ waveformData' = generateWaveform(channelData)
    /\ UNCHANGED <<isPlaying, currentTime, duration, audio>>
    /\ Redraw
    /\ OnlyPlayer

\* One of the three awaited promises is rejected (the request fails, the body
\* breaks off, the body is no audio file): generateWaveform throws, nothing
\* catches it (line 412), and waveformData stays as it is.
WaveformFailed ==
    /\ waveform \in {"fetch", "arrayBuffer", "decode"}
    /\ waveform' = "failed"
    /\ WaveformStill
    /\ OnlyPlayer

WaveNext ==
    \/ WaveformFetched
    \/ WaveformBuffered
    \/ WaveformLoaded
    \/ WaveformFailed

PlayerNext ==
    \/ \E o \in PlayOutcomes : togglePlayPause(o)
    \/ \E d \in 1..MaxDuration : loadedmetadata(d)
    \/ LoadFailed
    \/ Playback
    \/ PlaybackEnded
    \/ timeupdate
    \/ \E pos \in 0..MaxDuration : handleWaveformClick(pos)
    \/ WaveNext

\* formatTime applied to a time of fmtTime ticks.
MaxMinutes == 101
FormatTime ==
    /\ fmtOut = <<>>
    /\ fmtOut' = formatTime(Div(fmtTime, TicksPerSecond))
    /\ UNCHANGED fmtTime
    /\ OnlyFormat

-----------------------------------------------------------------------------
(* Specifications *)

AppIdle == /\ topic = "" /\ isLoading = FALSE /\ error = "" /\ recentPodcasts = Array(<<>>)
           /\ mounted = FALSE /\ unmounted = FALSE
           /\ calls = <<>> /\ backend = <<>> /\ nextId = 1
           /\ lastRefresh = NoRefresh
FmtIdle == fmtTime = 0 /\ fmtOut = <<>>

\* PodcastApp and its backend.
Init == AppInit /\ PlayerInit /\ channelData = <<>> /\ FmtIdle
Next == AppNext
Spec == Init /\ [][Next]_vars

\* One AudioPlayer and its audio element, for a short and a long file.
PlayerSpecInit ==
    /\ AppIdle /\ PlayerInit /\ FmtIdle
    /\ channelData \in { Buffer(L, 1) : L \in {samples \div 2, 2 * samples} }
PlayerSpec == PlayerSpecInit /\ [][PlayerNext]_vars

\* generateWaveform on every buffer of the bounds.
WaveInit == AppIdle /\ PlayerInit /\ FmtIdle /\ channelData \in Buffers
WaveSpec == WaveInit /\ [][WaveNext]_vars

\* formatTime on every time of the bounds.
FormatInit ==
    /\ AppIdle /\ PlayerInit /\ channelData = <<>>
    /\ fmtTime \in 0..(MaxMinutes * 60 * TicksPerSecond) /\ fmtOut = <<>>
FormatSpec == FormatInit /\ [][FormatTime]_vars

\* The steps that are not the user's: the backend answering a request and a
\* handler resuming after its await.
Progress ==
    \E c \in DOMAIN calls :
        \/ ServerPost(c) \/ ServerGet(c) \/ ServerDelete(c)
        \/ SubmitPostResponse(c) \/ DeleteResponse(c) \/ DeleteBody(c)
        \/ FetchResponse(c) \/ FetchBody(c) \/ FetchReturned(c)

\* The same transitions, with the requests answered and the handlers resumed
\* whenever they can be: fetch settles every request, and the event loop runs
\* every continuation whose promise has settled.  The page is opened on a
\* backend with at most one podcast.
LiveInit ==
    /\ \E n \in {0, MaxBackend \div 6} : AppStart(n)
    /\ PlayerInit /\ channelData = <<>> /\ FmtIdle
LiveSpec == LiveInit /\ [][Next]_vars /\ WF_vars(Progress)

\* The same page with all its handlers, opened on a backend that holds none,
\* fewer or more podcasts than the list shows.
ListInit ==
    /\ \E n \in {0, MaxBackend \div 2, MaxBackend} : AppStart(n)
    /\ PlayerInit /\ channelData = <<>> /\ FmtIdle
ListSpec == ListInit /\ [][Next]_vars

-----------------------------------------------------------------------------
(* Properties of PodcastApp *)

\* Call c is resumed in this step from its await at pc.
Resumed(c, pc) == calls[c].pc = pc /\ calls[c].resp # NoResp /\ calls'[c] # calls[c]
\* Call c is started by this step.
Started(c, kind) == c \notin DOMAIN calls /\ c \in DOMAIN calls' /\ calls'[c].kind = kind
\* Call c issues its list refresh in this step / returns in this step.
IssuesRefresh(c) == calls[c].pc # "get" /\ calls'[c].pc = "get"
Returns(c) == calls[c].pc # "done" /\ calls'[c].pc = "done"
IsOkList(r) == r.kind = "ok" /\ r.body.type = "array"
Running(kind) == \E c \in DOMAIN calls : calls[c].kind = kind /\ calls[c].pc # "done"
MountUnanswered == Len(calls) >= 2 /\ calls[1].pc = "get" /\ calls[1].resp = NoResp

\* C1: recentPodcasts never holds more than 5 entries, and a fetchPodcasts that
\* succeeds leaves in it the first min(5, n) elements of the n-element list the
\* backend returned, in the backend's order.
C1_RecentIsFirstFive ==
    [][ /\ Len(recentPodcasts.items) <= 5 /\ Len(recentPodcasts'.items) <= 5
        /\ \A c \in DOMAIN calls :
              Resumed(c, "json") /\ IsOkList(calls[c].resp) =>
                 LET data == calls[c].resp.body.items
                     shown == recentPodcasts'.items
                 IN /\ recentPodcasts'.type = "array"
                    /\ lastRefresh.call = c => lastRefresh'.ok
                    /\ Len(shown) = Min(5, Len(data))
                    /\ \A i \in 1..Len(shown) : shown[i] = data[i] ]_vars

\* C1 witness: the backend holds more than 5 podcasts and the list shows its
\* first 5.
C1_Witness ==
    /\ Len(backend) > 5 /\ Rendered /\ Len(recentPodcasts.items) = 5
    /\ \A i \in 1..5 : recentPodcasts.items[i] = backend[i]
    /\ \E c \in DOMAIN calls : calls[c].pc = "done"

\* C2: handleSubmit sends one POST carrying the current topic; when the POST is
\* ok the refresh is issued with the topic untouched, the topic stays untouched
\* while fetchPodcasts runs, and it is cleared when handleSubmit resumes after
\* the refresh, failed or not, which is when handleSubmit returns; a failed
\* POST leaves the topic alone, and nothing else of a handler clears it.
C2_SubmitClearsTopicAfterRefresh ==
    [][ /\ \A c \in DOMAIN calls' :
              /\ Started(c, "submit") =>
                    calls'[c].pc = "post" /\ calls'[c].arg = topic /\ topic # ""
              /\ c \in DOMAIN calls /\ calls'[c].pc = "post" => calls[c].pc = "post"
        /\ \A c \in DOMAIN calls : calls[c].kind = "submit" =>
              /\ Resumed(c, "post") /\ calls[c].resp.kind = "ok" =>
                    IssuesRefresh(c) /\ topic' = topic
              /\ Resumed(c, "post") /\ calls[c].resp.kind # "ok" =>
                    Returns(c) /\ topic' = topic
              /\ Resumed(c, "get") =>
                    calls'[c].pc \in {"json", "resume"} /\ topic' = topic
              /\ Resumed(c, "json") => calls'[c].pc = "resume" /\ topic' = topic
              /\ Resumed(c, "resume") => Returns(c) /\ topic' = ""
        /\ (topic' # topic /\ calls' # calls) =>
              \E c \in DOMAIN calls : calls[c].kind = "submit" /\ Resumed(c, "resume") ]_vars

\* C2 witness: a handleSubmit has returned after an ok POST (the backend holds
\* the new podcast) and a failed refresh, and the topic is empty.
C2_Witness ==
    /\ MountUnanswered
    /\ calls[2].kind = "submit" /\ calls[2].pc = "done"
    /\ Len(backend) > 0 /\ Head(backend) = nextId - 1
    /\ Rendered /\ Head(backend) \notin Ids(recentPodcasts.items)
    /\ error = "Failed to load podcasts"
    /\ topic = "" /\ ~isLoading

\* The message of each failure of the POST, as handleSubmit shows it.
ExpectedSubmitError(r) ==
    CASE r.kind = "http" -> "Network response was not ok: 500 Internal Server Error"
      [] r.kind = "reject" /\ r.isError -> "Failed to fetch"
      [] OTHER -> "An unknown error occurred"

\* C3: when the POST of handleSubmit fails, error becomes the failure message,
\* no list refresh is issued (handleSubmit returns), and topic and
\* recentPodcasts are left as they are.
C3_FailedPostSetsError ==
    [][ \A c \in DOMAIN calls :
           calls[c].kind = "submit" /\ Resumed(c, "post") /\ calls[c].resp.kind # "ok" =>
              /\ error' = ExpectedSubmitError(calls[c].resp)
              /\ Returns(c)
              /\ \A d \in DOMAIN calls : ~IssuesRefresh(d)
              /\ topic' = topic
              /\ recentPodcasts' = recentPodcasts ]_vars

\* C3 witness: a handleSubmit has returned from a POST answered 500: the
\* message is shown and the topic is still there.
C3_Witness ==
    /\ MountUnanswered
    /\ calls[2].kind = "submit" /\ calls[2].pc = "done"
    /\ error = "Network response was not ok: 500 Internal Server Error"
    /\ topic # "" /\ ~isLoading

\* C4: isLoading is true exactly while a handleSubmit call has started and not
\* returned, its list refresh included, and a handleSubmit whose requests are
\* answered returns, with isLoading false, whatever the POST's outcome.
C4_LoadingWhileSubmitting ==
    /\ [](isLoading <=> Running("submit"))
    /\ Running("submit") ~> (~Running("submit") /\ ~isLoading)

\* C4 witness: isLoading is true during the list refresh of a handleSubmit,
\* when fetchPodcasts has returned and handleSubmit has not yet resumed.
C4_Witness ==
    /\ isLoading
    /\ \E c \in DOMAIN calls : calls[c].kind = "submit" /\ calls[c].pc = "resume"

\* C5: handleDelete(id) sends one DELETE for an id shown; when the DELETE is ok
\* it issues a list refresh and never sets the delete error, not even when the
\* refresh fails; when the DELETE fails (the request is rejected, or the
\* response is not ok and its body has settled) it sets error to 'Failed to
\* delete podcast', issues no refresh and leaves recentPodcasts as it is.
C5_DeleteRefreshesOrReports ==
    [][ /\ \A c \in DOMAIN calls' :
              /\ Started(c, "delete") =>
                    calls'[c].pc = "delete" /\ calls'[c].arg \in Ids(recentPodcasts.items)
              /\ c \in DOMAIN calls /\ calls'[c].pc = "delete" => calls[c].pc = "delete"
        /\ \A c \in DOMAIN calls : calls[c].kind = "delete" =>
              /\ Resumed(c, "delete") /\ calls[c].resp.kind = "ok" =>
                    IssuesRefresh(c) /\ error' = error
              /\ Resumed(c, "delete") /\ calls[c].resp.kind = "http" =>
                    /\ calls'[c].pc = "text" /\ error' = error
                    /\ \A d \in DOMAIN calls : ~IssuesRefresh(d)
                    /\ recentPodcasts' = recentPodcasts
              /\ (Resumed(c, "delete") /\ calls[c].resp.kind = "reject") \/ Resumed(c, "text") =>
                    /\ error' = "Failed to delete podcast"
                    /\ Returns(c)
                    /\ \A d \in DOMAIN calls : ~IssuesRefresh(d)
                    /\ recentPodcasts' = recentPodcasts
              /\ Resumed(c, "get") \/ Resumed(c, "json") =>
                    error' \in {error, "Failed to load podcasts"}
              /\ Resumed(c, "resume") => Returns(c) /\ error' = error ]_vars

\* C5 witness: a handleDelete has returned from a failed DELETE: the delete
\* error is shown and the podcast is still listed and still on the backend.
C5_Witness ==
    /\ Len(calls) = 2 /\ calls[2].kind = "delete" /\ calls[2].pc = "done"
    /\ error = "Failed to delete podcast"
    /\ Rendered /\ recentPodcasts.items # <<>>
    /\ Ids(recentPodcasts.items) \subseteq Ids(backend)

\* The fetchPodcasts of call c fails in this step: its GET was rejected or
\* answered not ok, or the body of the ok response gave no value to slice.
FetchFails(c) ==
    \/ Resumed(c, "get") /\ calls[c].resp.kind # "ok"
    \/ Resumed(c, "json") /\ calls[c].resp.body.type = "other"

\* C6: when fetchPodcasts fails, error becomes 'Failed to load podcasts',
\* recentPodcasts keeps its value and fetchPodcasts returns; the caller then
\* goes on as after a success: handleSubmit clears the topic and drops
\* isLoading and sets no error, handleDelete sets nothing, and the mount effect
\* has nothing more to do.
C6_FailedFetchIsSwallowed ==
    [][ \A c \in DOMAIN calls :
           /\ FetchFails(c) =>
                 /\ error' = "Failed to load podcasts"
                 /\ recentPodcasts' = recentPodcasts
                 /\ topic' = topic /\ isLoading' = isLoading
                 /\ IF calls[c].kind = "mount" THEN Returns(c) ELSE calls'[c].pc = "resume"
           /\ Resumed(c, "resume") =>
                 /\ Returns(c)
                 /\ error' = error /\ recentPodcasts' = recentPodcasts
                 /\ IF calls[c].kind = "submit"
                    THEN topic' = "" /\ ~isLoading'
                    ELSE topic' = topic /\ isLoading' = isLoading ]_vars

\* C6 witness: the refresh of a handleDelete failed after the list had been
\* loaded: the load error is shown, and the list still shows the podcast the
\* backend has deleted.
C6_Witness ==
    /\ Len(calls) = 2 /\ calls[2].kind = "delete" /\ calls[2].pc = "done"
    /\ error = "Failed to load podcasts"
    /\ Rendered /\ \E id \in Ids(recentPodcasts.items) : id \notin Ids(backend)

\* The POSTs of handleSubmit that are in flight.
PostsInFlight == { c \in DOMAIN calls : calls[c].kind = "submit" /\ calls[c].pc = "post" }

\* C11: no create request is issued while topic is empty or while isLoading is
\* true, and at any time at most one POST of handleSubmit is in flight.
C11_OnePostAtATime ==
    [][ /\ \A c \in DOMAIN calls' :
              Started(c, "submit") => topic # "" /\ ~isLoading
        /\ Cardinality(PostsInFlight) <= 1
        /\ Cardinality(PostsInFlight') <= 1 ]_vars

\* C11 witness: a POST is in flight, the topic is not empty and another
\* handler could still be called, but the button is disabled by isLoading.
C11_Witness ==
    /\ Cardinality(PostsInFlight) = 1
    /\ topic # "" /\ isLoading /\ CanCall
    /\ submitDisabled

\* No request is in flight: every handler called has returned.
Quiet == mounted /\ \A c \in DOMAIN calls : calls[c].pc = "done"
\* The list the page should show: the first five podcasts of the backend.
FirstFive(list) == [i \in 1..Min(5, Len(list)) |-> list[i]]

\* C12: under any interleaving of the mount fetch, handleSubmit and
\* handleDelete and their responses, once no request is in flight, the list
\* refresh issued last has succeeded and a list is shown, recentPodcasts is the
\* first five entries of the backend's current list; in particular no deleted
\* podcast is shown.
C12_QuietListIsCurrent ==
    Quiet /\ lastRefresh.ok /\ Rendered =>
       recentPodcasts.items = FirstFive(backend)

\* C12, the part that does hold: once no request is in flight, the refresh
\* issued last has succeeded and a list is shown, the list is the first five
\* of a list the backend held at some time, so of podcasts it has handed out.
C12_QuietListIsSomeAnswer ==
    Quiet /\ lastRefresh.ok /\ Rendered =>
       /\ Len(recentPodcasts.items) <= 5
       /\ \A id \in Ids(recentPodcasts.items) : id \in 1..(nextId - 1)

\* C12, the other way it fails (a reachable state): nothing is in flight, the
\* refresh issued last has succeeded, and a podcast the backend has deleted is
\* shown again.
C12_DeletedReappears ==
    /\ Quiet /\ lastRefresh.ok /\ Rendered
    /\ \E id \in Ids(recentPodcasts.items) : id \notin Ids(backend)

-----------------------------------------------------------------------------
(* Properties of AudioPlayer *)

\* C7: in every reachable state of an AudioPlayer, isPlaying is true if and
\* only if the audio element is not paused.
C7_PlayingIffNotPaused == isPlaying <=> ~audio.paused

RECURSIVE SumAbs(_, _, _)
\* |data[from]| + ... + |data[to]|
SumAbs(data, from, to) ==
    IF to < from THEN 0 ELSE Abs(data[to]) + SumAbs(data, from, to - 1)

\* Value v is the mean of the absolute values of samples [i*B, (i+1)*B) of data.
IsBlockMean(v, data, i, B) ==
    IsFinite(v) /\ v.num * B = SumAbs(data, i * B + 1, (i + 1) * B) * v.den

\* C8: generateWaveform turns a buffer of length L into exactly 100 values;
\* with B = floor(L / 100), value i is the mean of the absolute values of
\* samples [i*B, (i+1)*B), so that the last L mod 100 samples are in no value,
\* and every value is non-negative.
C8_WaveformIsBlockMeans ==
    waveformData # <<>> =>
       LET B == Len(channelData) \div 100 IN
       /\ Len(waveformData) = 100
       /\ \A i \in 0..99 :
             /\ IsBlockMean(waveformData[i + 1], channelData, i, B)
             /\ IsFinite(waveformData[i + 1]) /\ waveformData[i + 1].num >= 0

\* C8, for the buffers of at least 100 samples: there the statement holds.
C8_HoldsFromHundredSamples == Len(channelData) >= 100 => C8_WaveformIsBlockMeans

\* C8, for the shorter ones: B = 0 and all 100 values are NaN (0 / 0).
C8_ShortBufferGivesNaN ==
    waveformData # <<>> /\ Len(channelData) < 100 =>
       Len(waveformData) = 100 /\ \A i \in 1..100 : IsNaN(waveformData[i])

\* The bars painted are those of the state shown.
Painted == canvas # <<>> /\ Len(canvas) = Len(waveformData)
NumBars == Len(canvas)
IsPrefix(bars) == \A i, j \in DOMAIN bars : i < j /\ bars[j] => bars[i]
\* With duration fixed, currentTime does not decrease in this step.
TimeGoesOn == duration' = duration /\ currentTime' >= currentTime /\ canvas # <<>>

\* C9 as stated: bar i of N is played exactly when i / N <= currentTime /
\* duration, the played bars are a prefix that does not shrink as currentTime
\* grows with duration fixed, and all N bars are played when currentTime
\* equals duration.
C9_AllPlayedAtDuration ==
    [][ waveformData' # <<>> =>
          /\ canvas' # <<>> /\ Len(canvas') = Len(waveformData')
          /\ duration' > 0 =>
                \A i \in 0..(Len(canvas') - 1) :
                   canvas'[i + 1] <=> (i * duration' <= currentTime' * Len(canvas'))
          /\ IsPrefix(canvas')
          /\ TimeGoesOn => \A i \in DOMAIN canvas : canvas[i] => canvas'[i]
          /\ currentTime' = duration' => \A i \in DOMAIN canvas' : canvas'[i] ]_vars

\* C9 as amended: the same, with all N bars played when currentTime equals
\* duration and duration > 0; while both are 0 (no metadata yet) the progress
\* is NaN and no bar is played.
C9_PlayedBarsFollowProgress ==
    [][ waveformData' # <<>> =>
          /\ canvas' # <<>> /\ Len(canvas') = Len(waveformData')
          /\ duration' > 0 =>
                \A i \in 0..(Len(canvas') - 1) :
                   canvas'[i + 1] <=> (i * duration' <= currentTime' * Len(canvas'))
          /\ IsPrefix(canvas')
          /\ TimeGoesOn => \A i \in DOMAIN canvas : canvas[i] => canvas'[i]
          /\ currentTime' = duration' /\ duration' > 0 =>
                \A i \in DOMAIN canvas' : canvas'[i]
          /\ currentTime' = 0 /\ duration' = 0 =>
                \A i \in DOMAIN canvas' : ~canvas'[i] ]_vars

\* C9 witness: part of the file is played, and the bars painted are a played
\* prefix followed by unplayed bars.
C9_Witness ==
    /\ Painted /\ duration > 0 /\ 0 < currentTime /\ currentTime < duration
    /\ \E k \in 2..(NumBars - 1) :
          \A i \in DOMAIN canvas : canvas[i] <=> i <= k

\* C9 witness of the end of the file: every bar is played.
C9_WitnessEnd ==
    /\ Painted /\ duration > 0 /\ currentTime = duration
    /\ \A i \in DOMAIN canvas : canvas[i]

RECURSIVE ParseNat(_)
\* The number a string of decimal digits writes; -1 when it is no such string.
DigitValue(ch) == IF \E d \in 0..9 : Digits[d + 1] = ch
                  THEN CHOOSE d \in 0..9 : Digits[d + 1] = ch ELSE -1
ParseNat(str) ==
    IF str = <<>> THEN -1
    ELSE LET d == DigitValue(str[Len(str)])
             front == SubSeq(str, 1, Len(str) - 1)
         IN IF d < 0 THEN -1
            ELSE IF front = <<>> THEN d
            ELSE IF ParseNat(front) < 0 THEN -1 ELSE 10 * ParseNat(front) + d

\* C10: for a time >= 0, whole or fractional, formatTime returns minutes ':'
\* seconds with minutes = floor(time / 60), seconds = floor(time mod 60)
\* written with exactly two digits, in 00..59, and minutes * 60 + seconds =
\* floor(time).
C10_FormatTimeSplitsSeconds ==
    fmtOut # <<>> =>
       LET n  == Len(fmtOut)
           mm == ParseNat(SubSeq(fmtOut, 1, n - 3))
           ss == ParseNat(SubSeq(fmtOut, n - 1, n))
           whole == fmtTime \div TicksPerSecond   \* floor(time)
       IN /\ n >= 4 /\ fmtOut[n - 2] = ":"
          /\ mm >= 0 /\ ss >= 0 /\ ss <= 59
          /\ mm * 60 * TicksPerSecond <= fmtTime
          /\ fmtTime < (mm + 1) * 60 * TicksPerSecond
          /\ ss = whole - 60 * mm
          /\ mm * 60 + ss = whole

\* C10 witness: 65 seconds and a fraction are written 1:05.
C10_Witness ==
    /\ fmtOut = <<"1", ":", "0", "5">>
    /\ fmtTime > 65 * TicksPerSecond

=============================================================================
